---- MODULE Spec2Model ----
(***************************************************************************)
(* tools/get_geo_waypoints.py: a script that asks the Overpass API for the *)
(* coastline ways inside a bounding box, reshapes the decoded JSON into a  *)
(* list of segments (lists of {lat, lon} waypoints) and prints it as       *)
(* pretty-printed JSON.                                                    *)
(*                                                                         *)
(* Conventions of the model                                                *)
(*  - a Python dict is a function whose DOMAIN is the set of its keys;     *)
(*  - a decoded JSON value is a tagged record: [kind |-> "object", d],     *)
(*    [kind |-> "array", items] or [kind |-> "other"] (a number, a string, *)
(*    null, true or false: a value with no .get and no subscript by key);  *)
(*  - a float is an integer number of tenths of a degree (342 is 34.2);    *)
(*  - text (the query, the output) is a sequence of strings;               *)
(*  - an optional value is a sequence of length 0 or 1.                    *)
(***************************************************************************)
EXTENDS Integers, Sequences, FiniteSets, TLC

VARIABLES
    pc,            \* position of the script
    bbox,          \* <<min_lat, min_lon, max_lat, max_lon>>, the arguments of the call
    upstream,      \* what the remote service does with the request of this run
    query,         \* local `query` of fetch_coastline_as_waypoints
    sent,          \* the calls of requests.get made so far, [url, data]
    response,      \* local `response`, optional
    data,          \* local `data`
    elements,      \* the list the outer loop iterates, data.get('elements', [])
    ways_it,       \* number of elements the outer loop has taken
    i,             \* the enumerate index of the inner loop
    waypoints,     \* local `waypoints`
    all_segments,  \* local `all_segments`
    coast_data,    \* module-level `coast_data`, optional
    stdout,        \* what print has written, one entry per call
    error          \* the uncaught exception that ended the run, "" if none

vars == <<pc, bbox, upstream, query, sent, response, data, elements, ways_it, i,
          waypoints, all_segments, coast_data, stdout, error>>

(***************************************************************************)
(* Bounds of the model.                                                    *)
(***************************************************************************)
\* longest "elements" array the upstream service answers with
MaxElems == 2
\* longest "geometry" array of one element
MaxPoints == 2

(***************************************************************************)
(* Python values.                                                          *)
(***************************************************************************)
EmptyDict == [k \in {} |-> 0]

Object(d) == [kind |-> "object", d |-> d]

Array(items) == [kind |-> "array", items |-> items]

Other == [kind |-> "other"]

Unset == [kind |-> "unset"]

\* dict.get(key, default)
DictGet(d, key, default) == IF key \in DOMAIN d THEN d[key] ELSE default

\* d[key] raises KeyError when the key is absent
HasKey(d, key) == key \in DOMAIN d

(***************************************************************************)
(* The script's constants.                                                 *)
(***************************************************************************)
overpass_url == "https://overpass-api.de/api/interpreter"

\* (34.2, 138.1, 36.9, 141.4)
bbox_haneda == <<342, 1381, 369, 1414>>

(***************************************************************************)
(* What the upstream service may answer.  The reshaping stops at the first *)
(* value that is not of the expected shape, so the answers are the         *)
(* well-shaped ones and those with exactly one ill-shaped value, at any    *)
(* position, with well-shaped values before and after it.                  *)
(***************************************************************************)
\* decoded points that have both fields: 35.0/139.0 and 35.1/139.1
GoodPoints ==
    { Object([lat |-> 350, lon |-> 1390]), Object([lat |-> 351, lon |-> 1391]) }

\* a point without lat, a point without lon, a point that is no object
BadPoints == { Object([lon |-> 1390]), Object([lat |-> 350]), Other }

SeqsUpTo(S, n) == UNION { [1..k -> S] : k \in 0..n }

GoodGeometries == SeqsUpTo(GoodPoints, MaxPoints)

BadGeometries ==
    UNION { { [g EXCEPT ![j] = p] : j \in DOMAIN g, p \in BadPoints } : g \in GoodGeometries }

\* an element with a geometry array, or with no geometry field at all
GoodWays ==
    { Object([geometry |-> Array(g)]) : g \in GoodGeometries } \cup { Object(EmptyDict) }

\* an element whose geometry holds an ill-shaped point or is no array, or
\* an element that is no object
BadWays ==
    { Object([geometry |-> Array(g)]) : g \in BadGeometries }
        \cup { Object([geometry |-> Other]), Other }

\* the decoded bodies that are no object with an "elements" array: an
\* object without the field, one whose field is no array, and no object
OddDocuments == { Object(EmptyDict), Object([elements |-> Other]), Other }

\* one success status and one non-success status
Statuses == { 200, 504 }

\* the transport fails: requests.get gets no response
NoAnswer == [answered |-> FALSE]

\* the service answers with a body that is not JSON
TextAnswer(status) == [answered |-> TRUE, status |-> status, body |-> [json |-> FALSE]]

\* the service answers with a body that is JSON and decodes to `value`
JsonAnswer(status, value) ==
    [answered |-> TRUE, status |-> status, body |-> [json |-> TRUE, value |-> value]]

\* the answers: none, text, an odd document, well-shaped elements (any
\* number up to MaxElems), and well-shaped elements with one replaced by an
\* ill-shaped one
IsUpstream(up) ==
    \/ up = NoAnswer
    \/ \E s \in Statuses :
        \/ up = TextAnswer(s)
        \/ \E v \in OddDocuments : up = JsonAnswer(s, v)
        \/ \E n \in 0..MaxElems : \E e \in [1..n -> GoodWays] :
            \/ up = JsonAnswer(s, Object([elements |-> Array(e)]))
            \/ \E k \in 1..n, w \in BadWays :
                up = JsonAnswer(s, Object([elements |-> Array([e EXCEPT ![k] = w])]))

\* the bounding boxes the query is built for: the script's own, boxes of
\* three sample bounds in any order (inverted boxes among them)
SampleBounds == { -5, 0, 1381 }

Boxes == { bbox_haneda } \cup (SampleBounds \X SampleBounds \X SampleBounds \X SampleBounds)

\* a few answers, for the runs that vary the bounding box
SampleUpstreams ==
    { NoAnswer,
      TextAnswer(200),
      JsonAnswer(200, Object([elements |-> Array(<<Object([geometry |->
          Array(<<Object([lat |-> 350, lon |-> 1390]),
                  Object([lat |-> 351, lon |-> 1391])>>)])>>)])) }

(***************************************************************************)
(* Text.                                                                   *)
(***************************************************************************)
Digit == <<"0", "1", "2", "3", "4", "5", "6", "7", "8", "9">>

RECURSIVE Digits(_)
\* the decimal digits of a natural number, most significant first
Digits(n) == IF n < 10 THEN <<Digit[n + 1]>> ELSE Append(Digits(n \div 10), Digit[(n % 10) + 1])

\* str() of a float given in tenths: 342 is "34.2", -5 is "-0.5", 350 is "35.0"
FormatFloat(t) ==
    LET a == IF t < 0 THEN -t ELSE t
    IN  (IF t < 0 THEN <<"-">> ELSE <<>>) \o Digits(a \div 10) \o <<".">> \o <<Digit[(a % 10) + 1]>>

\* a faulty variant of QueryText: the box as (min_lon, min_lat, max_lon, max_lat)
QueryTextLonFirst(min_lat, min_lon, max_lat, max_lon) ==
    <<"[out:json][timeout:25];", "(", "way[\"natural\"=\"coastline\"]", "(">>
        \o FormatFloat(min_lon) \o <<", ">> \o FormatFloat(min_lat) \o <<", ">>
        \o FormatFloat(max_lon) \o <<", ">> \o FormatFloat(max_lat)
        \o <<")", ";", ")", ";", "out geom;">>

\* the f-string of lines 11-17, without its layout white space
QueryText(min_lat, min_lon, max_lat, max_lon) ==
    <<"[out:json][timeout:25];", "(", "way[\"natural\"=\"coastline\"]", "(">>
        \o FormatFloat(min_lat) \o <<", ">> \o FormatFloat(min_lon) \o <<", ">>
        \o FormatFloat(max_lat) \o <<", ">> \o FormatFloat(max_lon)
        \o <<")", ";", ")", ";", "out geom;">>

RECURSIVE Concat(_)
\* the concatenation of a sequence of sequences
Concat(ss) == IF ss = <<>> THEN <<>> ELSE Head(ss) \o Concat(Tail(ss))

Indent(level) == [k \in 1..level |-> "  "]

Comma(last) == IF last THEN <<>> ELSE <<",">>

\* json.dumps(..., indent=2) of one waypoint at a nesting level, as lines
DumpsWaypoint(w, level, last) ==
    << Indent(level) \o <<"{">>,
       Indent(level + 1) \o <<"\"lat\": ">> \o FormatFloat(w.lat) \o <<",">>,
       Indent(level + 1) \o <<"\"lon\": ">> \o FormatFloat(w.lon),
       Indent(level) \o <<"}">> \o Comma(last) >>

\* of one segment: an empty list is "[]" on one line
DumpsSegment(seg, level, last) ==
    IF seg = <<>>
    THEN << Indent(level) \o <<"[]">> \o Comma(last) >>
    ELSE << Indent(level) \o <<"[">> >>
            \o Concat([k \in 1..Len(seg) |-> DumpsWaypoint(seg[k], level + 1, k = Len(seg))])
            \o << Indent(level) \o <<"]">> \o Comma(last) >>

\* of the whole result
Dumps(result) ==
    IF result = <<>>
    THEN << <<"[]">> >>
    ELSE << <<"[">> >>
            \o Concat([k \in 1..Len(result) |-> DumpsSegment(result[k], 1, k = Len(result))])
            \o << <<"]">> >>

(***************************************************************************)
(* The run of the script.                                                  *)
(***************************************************************************)
\* the state at line 44, the arguments bound and nothing else done
Start(box) ==
    /\ pc = "query"
    /\ bbox = box
    /\ query = <<>>
    /\ sent = <<>>
    /\ response = <<>>
    /\ data = Unset
    /\ elements = <<>>
    /\ ways_it = 0
    /\ i = 0
    /\ waypoints = <<>>
    /\ all_segments = <<>>
    /\ coast_data = <<>>
    /\ stdout = <<>>
    /\ error = ""

\* the script as written: the box of line 42, any answer of the service
Init == IsUpstream(upstream) /\ Start(bbox_haneda)

\* the function called with any box
InitBBox == upstream \in SampleUpstreams /\ \E box \in Boxes : Start(box)

\* an exception nothing catches ends the run; print is never reached
Raise(exc) ==
    /\ pc' = "failed"
    /\ error' = exc

\* lines 11-17
BuildQuery ==
    /\ pc = "query"
    /\ query' = QueryText(bbox[1], bbox[2], bbox[3], bbox[4])
    /\ pc' = "get"
    /\ UNCHANGED <<bbox, upstream, sent, response, data, elements, ways_it, i,
                   waypoints, all_segments, coast_data, stdout, error>>

\* a faulty variant of TransportFails: the request is tried again
TransportRetried ==
    /\ UNCHANGED <<pc, error, response>>

\* line 19, the transport fails: the exception of requests.get propagates
TransportFails ==
    /\ Raise("ConnectionError")
    /\ UNCHANGED response

\* line 19: requests.get raises when the transport fails and returns the
\* response, whatever its status, otherwise
HttpGet ==
    /\ pc = "get"
    /\ sent' = Append(sent, [url |-> overpass_url, data |-> query])
    /\ IF upstream.answered
       THEN /\ response' = <<[status |-> upstream.status, body |-> upstream.body]>>
            /\ pc' = "json"
            /\ UNCHANGED error
       ELSE TransportFails
    /\ UNCHANGED <<bbox, upstream, query, data, elements, ways_it, i,
                   waypoints, all_segments, coast_data, stdout>>

\* a faulty variant of DecodeFails: the failure is swallowed and the body
\* taken for an empty object
DecodeSwallowed ==
    /\ data' = Object(EmptyDict)
    /\ pc' = "elements"
    /\ UNCHANGED error

\* line 20, the body is not JSON: the exception of response.json() propagates
DecodeFails ==
    /\ Raise("JSONDecodeError")
    /\ UNCHANGED data

\* line 20: response.json() raises when the body is not JSON
DecodeJson ==
    /\ pc = "json"
    /\ IF response[1].body.json
       THEN /\ data' = response[1].body.value
            /\ pc' = "elements"
            /\ UNCHANGED error
       ELSE DecodeFails
    /\ UNCHANGED <<bbox, upstream, query, sent, response, elements, ways_it, i,
                   waypoints, all_segments, coast_data, stdout>>

\* a faulty variant of ElementsOf: data.get('elements'), with no default
ElementsOfNoDefault(doc) == DictGet(doc.d, "elements", Other)

\* line 25: data.get('elements', [])
ElementsOf(doc) == DictGet(doc.d, "elements", Array(<<>>))

\* a faulty variant of GeometryOf: way.get('geometry'), with no default
GeometryOfNoDefault(way) == DictGet(way.d, "geometry", Other)

\* line 29: way.get('geometry', [])
GeometryOf(way) == DictGet(way.d, "geometry", Array(<<>>))

\* lines 22-25: all_segments = [] and the iterator over data.get('elements', [])
StartLoop ==
    /\ pc = "elements"
    /\ IF data.kind # "object"
       THEN /\ Raise("AttributeError")
            /\ UNCHANGED <<elements, all_segments, ways_it>>
       ELSE LET v == ElementsOf(data)
            IN  IF v.kind # "array"
                THEN /\ Raise("TypeError")
                     /\ UNCHANGED <<elements, all_segments, ways_it>>
                ELSE /\ elements' = v.items
                     /\ all_segments' = <<>>
                     /\ ways_it' = 0
                     /\ pc' = "for_way"
                     /\ UNCHANGED error
    /\ UNCHANGED <<bbox, upstream, query, sent, response, data, i,
                   waypoints, coast_data, stdout>>

\* line 25, the loop's next element, then lines 26-29: waypoints = [] and
\* the iterator over way.get('geometry', []); line 37 when none is left
ForWay ==
    /\ pc = "for_way"
    /\ IF ways_it < Len(elements)
       THEN LET way == elements[ways_it + 1]
            IN  /\ ways_it' = ways_it + 1
                /\ IF way.kind # "object"
                   THEN /\ Raise("AttributeError")
                        /\ UNCHANGED <<waypoints, i>>
                   ELSE IF GeometryOf(way).kind # "array"
                        THEN /\ Raise("TypeError")
                             /\ UNCHANGED <<waypoints, i>>
                        ELSE /\ waypoints' = <<>>
                             /\ i' = 0
                             /\ pc' = "for_point"
                             /\ UNCHANGED error
                /\ UNCHANGED coast_data
       ELSE /\ coast_data' = <<all_segments>>
            /\ pc' = "print"
            /\ UNCHANGED <<ways_it, waypoints, i, error>>
    /\ UNCHANGED <<bbox, upstream, query, sent, response, data, elements,
                   all_segments, stdout>>

\* a faulty variant of Waypoint: lat and lon exchanged
WaypointSwapped(point) == [lat |-> point.d["lon"], lon |-> point.d["lat"]]

\* lines 30-33: the dict appended for one point
Waypoint(point) == [lat |-> point.d["lat"], lon |-> point.d["lon"]]

\* line 30: waypoints.append(...)
AppendWaypoint(wps, point) == Append(wps, Waypoint(point))

\* a faulty variant of AppendSegment: all_segments.insert(0, waypoints)
PrependSegment(segs, wps) == <<wps>> \o segs

\* line 35: all_segments.append(waypoints)
AppendSegment(segs, wps) == Append(segs, wps)

\* a faulty variant of PointFails: the point is skipped
PointSkipped(exc) ==
    /\ UNCHANGED <<pc, error, waypoints>>

\* lines 31-32, point['lat'] or point['lon'] raises: the exception propagates
PointFails(exc) ==
    /\ Raise(exc)
    /\ UNCHANGED waypoints

\* line 29, the loop's next point, then lines 30-33; line 35 when none is left
ForPoint ==
    /\ pc = "for_point"
    /\ LET geometry == GeometryOf(elements[ways_it]).items
       IN  IF i < Len(geometry)
           THEN LET point == geometry[i + 1]
                IN  /\ i' = i + 1
                    /\ IF point.kind # "object"
                       THEN PointFails("TypeError")
                       ELSE IF ~HasKey(point.d, "lat") \/ ~HasKey(point.d, "lon")
                            THEN PointFails("KeyError")
                            ELSE /\ waypoints' = AppendWaypoint(waypoints, point)
                                 /\ UNCHANGED <<pc, error>>
                    /\ UNCHANGED all_segments
           ELSE /\ all_segments' = AppendSegment(all_segments, waypoints)
                /\ pc' = "for_way"
                /\ UNCHANGED <<i, waypoints, error>>
    /\ UNCHANGED <<bbox, upstream, query, sent, response, data, elements, ways_it,
                   coast_data, stdout>>

\* line 47
OutputJson ==
    /\ pc = "print"
    /\ stdout' = Append(stdout, Dumps(coast_data[1]))
    /\ pc' = "done"
    /\ UNCHANGED <<bbox, upstream, query, sent, response, data, elements, ways_it, i,
                   waypoints, all_segments, coast_data, error>>

Next == BuildQuery \/ HttpGet \/ DecodeJson \/ StartLoop \/ ForWay \/ ForPoint \/ OutputJson

Spec == Init /\ [][Next]_vars

SpecBBox == InitBBox /\ [][Next]_vars

(***************************************************************************)
(* What the properties speak about: the answer of the service as it was    *)
(* sent, and what the run has produced.                                    *)
(***************************************************************************)
\* the body of the answer is JSON
Decodable == upstream.answered /\ upstream.body.json

\* ... and decodes to an object
DecodesToObject == Decodable /\ upstream.body.value.kind = "object"

\* ... that has an "elements" array
HasElementsArray ==
    /\ DecodesToObject
    /\ "elements" \in DOMAIN upstream.body.value.d
    /\ upstream.body.value.d["elements"].kind = "array"

\* the "elements" array of the answer
InputElements == upstream.body.value.d["elements"].items

\* an element that is an object with no geometry field
NoGeometry(e) == e.kind = "object" /\ "geometry" \notin DOMAIN e.d

\* an element that is an object with a geometry array
HasGeometryArray(e) ==
    e.kind = "object" /\ "geometry" \in DOMAIN e.d /\ e.d["geometry"].kind = "array"

\* a point that is an object with both fields
GoodPoint(p) == p.kind = "object" /\ {"lat", "lon"} \subseteq DOMAIN p.d

\* an element of the expected shape
GoodWay(e) ==
    \/ NoGeometry(e)
    \/ /\ HasGeometryArray(e)
       /\ \A j \in DOMAIN e.d["geometry"].items : GoodPoint(e.d["geometry"].items[j])

\* the points of an element of the expected shape
PointsOf(e) == IF NoGeometry(e) THEN <<>> ELSE e.d["geometry"].items

\* the segment an element of the expected shape stands for
SegmentFor(e) ==
    [j \in 1..Len(PointsOf(e)) |-> [lat |-> PointsOf(e)[j].d["lat"], lon |-> PointsOf(e)[j].d["lon"]]]

\* the fetch has returned a Result
Returned == coast_data # <<>>

\* the Result, once returned
Result == coast_data[1]

(***************************************************************************)
(* C1.  A decoded answer whose "elements" array holds N elements gives a   *)
(* Result of exactly N segments, the k-th built from the k-th element:     *)
(* whenever the fetch returns, the Result is the list of the elements'     *)
(* segments in the elements' order, and while every element is of the      *)
(* expected shape the fetch does not fail.                                 *)
(***************************************************************************)
C1_OneSegmentPerElement ==
    HasElementsArray =>
        /\ Returned =>
            /\ Len(Result) = Len(InputElements)
            /\ \A k \in 1..Len(Result) :
                /\ GoodWay(InputElements[k])
                /\ Result[k] = SegmentFor(InputElements[k])
        /\ (\A k \in DOMAIN InputElements : GoodWay(InputElements[k])) => pc # "failed"

\* two different elements, two different segments, in the elements' order
C1_Witness ==
    /\ pc = "done"
    /\ HasElementsArray
    /\ Len(InputElements) = 2
    /\ Len(Result) = 2
    /\ Result[1] # Result[2]
    /\ Result[1] # <<>>
    /\ Result[2] # <<>>

(***************************************************************************)
(* C2.  An element whose geometry array has K points gives a segment of    *)
(* exactly K waypoints, the j-th with the lat and the lon of the j-th      *)
(* point and with nothing else.                                            *)
(***************************************************************************)
C2_OneWaypointPerPoint ==
    (HasElementsArray /\ Returned) =>
        \A k \in 1..Len(InputElements) :
            (k <= Len(Result) /\ HasGeometryArray(InputElements[k])) =>
                LET points == InputElements[k].d["geometry"].items
                IN  /\ Len(Result[k]) = Len(points)
                    /\ \A j \in 1..Len(points) :
                        /\ DOMAIN Result[k][j] = {"lat", "lon"}
                        /\ Result[k][j].lat = DictGet(points[j].d, "lat", -1)
                        /\ Result[k][j].lon = DictGet(points[j].d, "lon", -1)

\* a returned segment of two different waypoints
C2_Witness ==
    /\ Returned
    /\ \E k \in 1..Len(Result) :
        /\ Len(Result[k]) = 2
        /\ Result[k][1] # Result[k][2]

(***************************************************************************)
(* C3.  A non-success status makes the fetch fail: for an answer whose     *)
(* status is not 2xx, whatever its body, no Result is returned and nothing *)
(* is printed.  The script never reads the status (line 19 is followed by  *)
(* no check of it), so an answer with such a status and a JSON body is     *)
(* reshaped and printed like any other.                                    *)
(***************************************************************************)
SuccessStatus(status) == status \in 200..299

C3_NonSuccessStatusFails ==
    (response # <<>> /\ ~SuccessStatus(response[1].status)) =>
        /\ ~Returned
        /\ stdout = <<>>
        /\ pc \notin {"print", "done"}

(***************************************************************************)
(* C4.  A body that is not JSON makes the fetch fail with the decode       *)
(* error: no Result, empty or partial, is ever returned for it, the loops  *)
(* are never entered and nothing is printed.                               *)
(***************************************************************************)
C4_MalformedBodyFails ==
    (upstream.answered /\ ~upstream.body.json) =>
        /\ ~Returned
        /\ stdout = <<>>
        /\ pc \in {"query", "get", "json", "failed"}
        /\ pc = "failed" => error = "JSONDecodeError"

\* the run has ended on the decode error
C4_Witness ==
    /\ pc = "failed"
    /\ error = "JSONDecodeError"
    /\ response # <<>>
    /\ ~response[1].body.json
    /\ ~Returned

(***************************************************************************)
(* C5.  An element with no geometry field gives an empty segment at its    *)
(* position: the run never fails on such an element, and the segments of   *)
(* the other elements are those they give without it.                      *)
(***************************************************************************)
RemoveAt(seq, k) == [m \in 1..(Len(seq) - 1) |-> IF m < k THEN seq[m] ELSE seq[m + 1]]

C5_NoGeometryIsEmptySegment ==
    /\ (pc = "failed" /\ ways_it \in 1..Len(elements)) => ~NoGeometry(elements[ways_it])
    /\ (HasElementsArray /\ Returned) =>
        \A k \in 1..Len(InputElements) :
            NoGeometry(InputElements[k]) =>
                /\ k <= Len(Result)
                /\ Result[k] = <<>>
                /\ RemoveAt(Result, k)
                     = [m \in 1..(Len(InputElements) - 1) |->
                            SegmentFor(RemoveAt(InputElements, k)[m])]

\* an element with no geometry next to one with points, both in the Result
C5_Witness ==
    /\ pc = "done"
    /\ HasElementsArray
    /\ Len(Result) = 2
    /\ \E k \in 1..2 : NoGeometry(InputElements[k]) /\ Result[k] = <<>>
    /\ \E k \in 1..2 : Result[k] # <<>>

(***************************************************************************)
(* C6.  A decoded object with no "elements" field, or with an empty        *)
(* "elements" array, gives the empty Result and no error, and the output   *)
(* printed for it is the one line "[]".                                    *)
(***************************************************************************)
NoElements ==
    /\ DecodesToObject
    /\ \/ "elements" \notin DOMAIN upstream.body.value.d
       \/ upstream.body.value.d["elements"] = Array(<<>>)

C6_NoElementsIsEmptyResult ==
    NoElements =>
        /\ pc # "failed"
        /\ error = ""
        /\ Returned => Result = <<>>
        /\ pc = "done" => stdout = << << <<"[]">> >> >>

\* the object without the field, printed
C6_Witness ==
    /\ pc = "done"
    /\ DecodesToObject
    /\ "elements" \notin DOMAIN upstream.body.value.d
    /\ Result = <<>>
    /\ stdout = << << <<"[]">> >> >>

(***************************************************************************)
(* C7.  Exactly one HTTP request per run: requests.get is never called a   *)
(* second time, whatever the first call gave, and it has been called       *)
(* before anything is decoded, reshaped or printed and before the run      *)
(* ends.                                                                   *)
(***************************************************************************)
C7_OneRequest ==
    /\ Len(sent) <= 1
    /\ pc \notin {"query", "get"} => Len(sent) = 1
    /\ (response # <<>> \/ data # Unset \/ Returned \/ stdout # <<>> \/ error # "")
          => Len(sent) = 1
    /\ \A k \in DOMAIN sent : sent[k] = [url |-> overpass_url, data |-> query]

\* the run has ended on a transport failure, with one request made
C7_Witness ==
    /\ pc = "failed"
    /\ error = "ConnectionError"
    /\ Len(sent) = 1

(***************************************************************************)
(* C9.  Output is all-or-nothing: at most one write, only after the fetch  *)
(* has returned the complete Result, and none on a failing path, a         *)
(* non-success status among them.  The script prints for an answer with a  *)
(* non-success status and a well-shaped JSON body (see C3).                *)
(***************************************************************************)
\* every element of the answer is of the expected shape
WellShaped ==
    /\ DecodesToObject
    /\ \/ "elements" \notin DOMAIN upstream.body.value.d
       \/ /\ HasElementsArray
          /\ \A k \in DOMAIN InputElements : GoodWay(InputElements[k])

\* the paths the run has to fail on
FailingPath ==
    \/ ~upstream.answered
    \/ ~SuccessStatus(upstream.status)
    \/ ~upstream.body.json
    \/ ~WellShaped

C9_AllOrNothing ==
    /\ Len(stdout) <= 1
    /\ stdout # <<>> =>
        /\ pc = "done"
        /\ Returned
        /\ stdout[1] = Dumps(Result)
    /\ FailingPath =>
        /\ stdout = <<>>
        /\ pc \notin {"print", "done"}

(***************************************************************************)
(* C10.  A point that lacks lat or lon makes the whole fetch fail: no      *)
(* Result is returned, not even the segments built before the point was    *)
(* reached, and nothing is printed.                                        *)
(***************************************************************************)
LacksField(p) == p.kind = "object" /\ ~({"lat", "lon"} \subseteq DOMAIN p.d)

HasPointLackingField ==
    /\ HasElementsArray
    /\ \E k \in DOMAIN InputElements :
        /\ HasGeometryArray(InputElements[k])
        /\ \E j \in DOMAIN InputElements[k].d["geometry"].items :
              LacksField(InputElements[k].d["geometry"].items[j])

C10_MissingFieldFailsWhole ==
    HasPointLackingField =>
        /\ ~Returned
        /\ stdout = <<>>
        /\ pc \notin {"print", "done"}
        /\ pc = "failed" => error = "KeyError"

\* the run has ended on the point, a segment and a waypoint already built
C10_Witness ==
    /\ pc = "failed"
    /\ error = "KeyError"
    /\ all_segments # <<>>
    /\ all_segments[1] # <<>>
    /\ waypoints # <<>>
    /\ ~Returned
    /\ stdout = <<>>

(***************************************************************************)
(* C8.  The query sent carries the four bounds in the order (min_lat,      *)
(* min_lon, max_lat, max_lon) inside the bounding-box clause of the way    *)
(* filter, unchanged and unchecked: read back from the text of the         *)
(* request, the clause gives the four arguments of the call, inverted      *)
(* boxes included.  Checked under SpecBBox, which calls the function with  *)
(* every box of Boxes.                                                     *)
(***************************************************************************)
\* the position of the first `tok` in a text, 0 if there is none
IndexOf(text, tok) ==
    IF \E k \in DOMAIN text : text[k] = tok
    THEN CHOOSE k \in DOMAIN text : text[k] = tok /\ \A m \in 1..(k - 1) : text[m] # tok
    ELSE 0

RECURSIVE SplitOn(_, _)
\* the pieces of a text between the occurrences of `sep`
SplitOn(text, sep) ==
    LET k == IndexOf(text, sep)
    IN  IF k = 0 THEN <<text>>
        ELSE <<SubSeq(text, 1, k - 1)>> \o SplitOn(SubSeq(text, k + 1, Len(text)), sep)

\* what stands between "(" and ")" right after the way filter
BBoxClause(text) ==
    LET f    == IndexOf(text, "way[\"natural\"=\"coastline\"]")
        rest == SubSeq(text, f + 2, Len(text))
    IN  IF f = 0 \/ f + 1 > Len(text) \/ text[f + 1] # "(" \/ IndexOf(rest, ")") = 0
        THEN <<>>
        ELSE SubSeq(rest, 1, IndexOf(rest, ")") - 1)

RECURSIVE ReadNat(_)
\* the natural number a sequence of digits writes, -1 if it is none
ReadNat(cs) ==
    IF cs = <<>> THEN -1
    ELSE LET c == cs[Len(cs)]
             v == IndexOf(Digit, c) - 1
         IN  IF v < 0 THEN -1
             ELSE IF Len(cs) = 1 THEN v
             ELSE LET hi == ReadNat(SubSeq(cs, 1, Len(cs) - 1))
                  IN  IF hi < 0 THEN -1 ELSE hi * 10 + v

\* the number of tenths a decimal numeral writes; <<"?">> if it is none
ReadFloat(cs) ==
    LET neg  == cs # <<>> /\ cs[1] = "-"
        body == IF neg THEN Tail(cs) ELSE cs
        dot  == IndexOf(body, ".")
        int  == ReadNat(SubSeq(body, 1, dot - 1))
        frac == ReadNat(SubSeq(body, dot + 1, Len(body)))
    IN  IF dot = 0 \/ Len(body) # dot + 1 \/ int < 0 \/ frac < 0
        THEN <<"?">>
        ELSE <<IF neg THEN -(int * 10 + frac) ELSE int * 10 + frac>>

\* the numbers of the clause, in the order written
BoundsRead(text) ==
    LET parts == SplitOn(BBoxClause(text), ", ")
    IN  [m \in 1..Len(parts) |-> ReadFloat(parts[m])]

C8_BoundsInOrder ==
    /\ query # <<>> => BoundsRead(query) = <<<<bbox[1]>>, <<bbox[2]>>, <<bbox[3]>>, <<bbox[4]>>>>
    /\ \A k \in DOMAIN sent :
        BoundsRead(sent[k].data) = <<<<bbox[1]>>, <<bbox[2]>>, <<bbox[3]>>, <<bbox[4]>>>>

\* a request sent for a box inverted in both directions
C8_Witness ==
    /\ sent # <<>>
    /\ bbox[1] > bbox[3]
    /\ bbox[2] > bbox[4]
    /\ bbox[1] # bbox[2]
    /\ bbox[3] < 0

====
